---------------------------- MODULE Spec2Model ----------------------------
(***************************************************************************)
(* Model of the LLM provider layer: the dispatcher (core/llm.ts), the      *)
(* error taxonomy (core/errors.ts) and the OpenAI adapter                  *)
(* (providers/openai.ts) with its process-wide client singleton.           *)
(*                                                                         *)
(* JavaScript values are encoded as follows.                               *)
(*   - an optional value (a missing key, undefined) is a sequence of       *)
(*     length at most one: None is undefined, Some(x) is x;                *)
(*   - a string that the code builds or inspects is a sequence: a model    *)
(*     identifier is a sequence of characters, a message is the sequence   *)
(*     of the fragments of its template literal, a reply text is the       *)
(*     sequence of its JSON lexemes;                                       *)
(*   - a JSON value is a tagged record [t, v].                             *)
(***************************************************************************)
EXTENDS Integers, Sequences, FiniteSets, TLC

VARIABLES
    envKey,         \* process.env.OPENAI_API_KEY
    openaiClient,   \* the module-level singleton of providers/openai.ts
    constructed,    \* number of `new OpenAI(...)` evaluations so far
    call,           \* the generate calls in flight, one record per slot
    heap,           \* the objects callers and dispatchers hold references to
    llms,           \* the dispatchers (LLM instances) constructed so far
    held            \* the configuration objects a caller holds a reference to

vars == <<envKey, openaiClient, constructed, call, heap, llms, held>>

(* Number of generate calls that can be in flight at the same time. *)
MaxCalls == 2

Calls == 1..MaxCalls

-----------------------------------------------------------------------------
(* Optional values. *)

None == <<>>

Some(x) == <<x>>

(* a ?? b *)
Coalesce(a, b) == IF a # None THEN a[1] ELSE b

-----------------------------------------------------------------------------
(* Strings as character sequences: String.prototype.toLowerCase and        *)
(* String.prototype.includes.                                              *)

UpperCase == <<"A", "B", "C", "D", "E", "F", "G", "H", "I", "J", "K", "L", "M",
               "N", "O", "P", "Q", "R", "S", "T", "U", "V", "W", "X", "Y", "Z">>

LowerCase == <<"a", "b", "c", "d", "e", "f", "g", "h", "i", "j", "k", "l", "m",
               "n", "o", "p", "q", "r", "s", "t", "u", "v", "w", "x", "y", "z">>

(* the lower-case letter of each upper-case letter *)
Lowered ==
    [c \in {UpperCase[i] : i \in 1..Len(UpperCase)} |->
        LowerCase[CHOOSE i \in 1..Len(UpperCase) : UpperCase[i] = c]]

toLowerCaseChar(c) == IF c \in DOMAIN Lowered THEN Lowered[c] ELSE c

toLowerCase(s) == [i \in 1..Len(s) |-> toLowerCaseChar(s[i])]

includes(s, sub) ==
    \E i \in 0..(Len(s) - Len(sub)) : SubSeq(s, i + 1, i + Len(sub)) = sub

-----------------------------------------------------------------------------
(* core/llm.ts: provider detection.                                        *)

DEFAULT_TIMEOUT == 90000

(* a detection that looks for the markers in the identifier as it is given *)
detectProvider_caseSensitive(model) ==
    IF \/ includes(model, <<"g", "p", "t">>)
       \/ includes(model, <<"o", "1">>)
       \/ includes(model, <<"o", "3">>)
       \/ includes(model, <<"d", "a", "v", "i", "n", "c", "i">>)
       \/ includes(model, <<"c", "u", "r", "i", "e">>)
       \/ includes(model, <<"b", "a", "b", "b", "a", "g", "e">>)
       \/ includes(model, <<"a", "d", "a">>)
    THEN "openai"
    ELSE IF includes(model, <<"c", "l", "a", "u", "d", "e">>)
    THEN "anthropic"
    ELSE IF \/ includes(model, <<"g", "e", "m", "i", "n", "i">>)
            \/ includes(model, <<"p", "a", "l", "m">>)
    THEN "gemini"
    ELSE "openai"

detectProvider(model) ==
    LET modelLower == toLowerCase(model) IN
    IF \/ includes(modelLower, <<"g", "p", "t">>)
       \/ includes(modelLower, <<"o", "1">>)
       \/ includes(modelLower, <<"o", "3">>)
       \/ includes(modelLower, <<"d", "a", "v", "i", "n", "c", "i">>)
       \/ includes(modelLower, <<"c", "u", "r", "i", "e">>)
       \/ includes(modelLower, <<"b", "a", "b", "b", "a", "g", "e">>)
       \/ includes(modelLower, <<"a", "d", "a">>)
    THEN "openai"
    ELSE IF includes(modelLower, <<"c", "l", "a", "u", "d", "e">>)
    THEN "anthropic"
    ELSE IF \/ includes(modelLower, <<"g", "e", "m", "i", "n", "i">>)
            \/ includes(modelLower, <<"p", "a", "l", "m">>)
    THEN "gemini"
    ELSE "openai"

-----------------------------------------------------------------------------
(* JSON values: [t |-> tag, v |-> payload].  An object is the sequence of  *)
(* its <<key, value>> pairs in insertion order.  JCycle stands for a       *)
(* property whose value is an ancestor of the node holding it (an object   *)
(* graph with a cycle), which only a caller-built value can contain.       *)

JNull == [t |-> "null", v |-> ""]

JBool(b) == [t |-> "bool", v |-> b]

JNum(n) == [t |-> "num", v |-> n]

JStr(s) == [t |-> "str", v |-> s]

JArr(elems) == [t |-> "arr", v |-> elems]

JObj(pairs) == [t |-> "obj", v |-> pairs]

JCycle == [t |-> "cycle", v |-> ""]

hasKey(obj, k) == \E i \in 1..Len(obj.v) : obj.v[i][1] = k

(* obj[k], for a key the object has *)
getProp(obj, k) == obj.v[CHOOSE i \in 1..Len(obj.v) : obj.v[i][1] = k][2]

(* obj[k] = val: an existing key keeps its place, a new one goes last *)
setProp(obj, k, val) ==
    IF hasKey(obj, k)
    THEN JObj([i \in 1..Len(obj.v) |->
                  IF obj.v[i][1] = k THEN <<k, val>> ELSE obj.v[i]])
    ELSE JObj(Append(obj.v, <<k, val>>))


JUndefined == [t |-> "undefined", v |-> ""]

(* JavaScript truthiness of a JSON value *)
truthy(val) ==
    CASE val.t = "undefined" -> FALSE
      [] val.t = "null" -> FALSE
      [] val.t = "bool" -> val.v
      [] val.t = "num" -> val.v # "0"
      [] val.t = "str" -> val.v # ""
      [] OTHER -> TRUE

(* typeof val === 'object' && val !== null *)
isObjectLike(val) == val.t \in {"obj", "arr", "cycle"}

RECURSIVE hasCycle(_)
hasCycle(val) ==
    CASE val.t = "cycle" -> TRUE
      [] val.t = "arr" -> \E i \in 1..Len(val.v) : hasCycle(val.v[i])
      [] val.t = "obj" -> \E i \in 1..Len(val.v) : hasCycle(val.v[i][2])
      [] OTHER -> FALSE

(* the pairs of an object that JSON.stringify keeps *)
keptPairs(pairs) == SelectSeq(pairs, LAMBDA p : p[2].t # "undefined")

(* JSON.parse(JSON.stringify(val)) for a value without a cycle: a property *)
(* holding undefined is dropped, an array element holding undefined        *)
(* becomes null.                                                           *)
RECURSIVE jsonClone(_)
jsonClone(val) ==
    CASE val.t = "arr" ->
           JArr([i \in 1..Len(val.v) |->
                    IF val.v[i].t = "undefined" THEN JNull ELSE jsonClone(val.v[i])])
      [] val.t = "obj" ->
           LET kept == keptPairs(val.v) IN
           JObj([i \in 1..Len(kept) |-> <<kept[i][1], jsonClone(kept[i][2])>>])
      [] OTHER -> val

-----------------------------------------------------------------------------
(* providers/openai.ts: schema normalization for strict mode.              *)

RECURSIVE processSchema(_)

(* lines 88-90 *)
closeObject(obj) ==
    IF /\ hasKey(obj, "type")
       /\ getProp(obj, "type") = JStr("object")
       /\ ~hasKey(obj, "additionalProperties")
    THEN setProp(obj, "additionalProperties", JBool(FALSE))
    ELSE obj

(* the for-in loop of lines 93-95 over an object or an array *)
processEach(ps) ==
    IF ps.t = "obj"
    THEN JObj([i \in 1..Len(ps.v) |-> <<ps.v[i][1], processSchema(ps.v[i][2])>>])
    ELSE IF ps.t = "arr"
    THEN JArr([i \in 1..Len(ps.v) |-> processSchema(ps.v[i])])
    ELSE ps

(* lines 92-96 *)
processProperties(obj) ==
    IF /\ hasKey(obj, "properties")
       /\ truthy(getProp(obj, "properties"))
       /\ isObjectLike(getProp(obj, "properties"))
    THEN setProp(obj, "properties", processEach(getProp(obj, "properties")))
    ELSE obj

(* lines 98-100 *)
processItems(obj) ==
    IF hasKey(obj, "items") /\ truthy(getProp(obj, "items"))
    THEN setProp(obj, "items", processSchema(getProp(obj, "items")))
    ELSE obj

(* lines 102-106, for one of the keys anyOf, allOf, oneOf *)
processUnion(obj, key) ==
    IF hasKey(obj, key) /\ getProp(obj, key).t = "arr"
    THEN setProp(obj, key, processEach(getProp(obj, key)))
    ELSE obj

(* lines 85-107; the object is rebuilt where the code mutates the clone *)
processSchema(obj) ==
    IF obj.t # "obj"
    THEN obj    \* not an object, null, or an array (which has none of the keys)
    ELSE processUnion(
           processUnion(
             processUnion(processItems(processProperties(closeObject(obj))), "anyOf"),
             "allOf"),
           "oneOf")

(* None when JSON.stringify throws (TypeError: circular structure) *)
normalizeSchemaForStrictMode(schema) ==
    IF hasCycle(schema) THEN None ELSE Some(processSchema(jsonClone(schema)))

(* None when the normalization throws *)
responseFormat(schema, normalized) ==
    IF normalized = None
    THEN None
    ELSE Some([type |-> "json_schema",
               name |-> IF hasKey(schema, "title")
                           /\ getProp(schema, "title").t \notin {"null", "undefined"}
                        THEN getProp(schema, "title")
                        ELSE JStr("response"),
               schema |-> normalized[1],
               strict |-> TRUE])

convertSchemaToResponseFormat(schema) ==
    responseFormat(schema, normalizeSchemaForStrictMode(schema))

-----------------------------------------------------------------------------
(* core/errors.ts: the error taxonomy.  Every thrown value, of the         *)
(* taxonomy or not, is a record of the same shape: cls is the class of the *)
(* object ("null" for a thrown null or undefined), status is the field the *)
(* backend's errors carry, statusCode the field of the taxonomy.           *)

Thrown(cls, name, message, status) ==
    [cls |-> cls, name |-> name, message |-> message, status |-> status,
     statusCode |-> None, provider |-> None, code |-> None, originalError |-> None]

LLMError(message, statusCode, provider, code, originalError) ==
    [cls |-> "LLMError", name |-> Some("LLMError"), message |-> Some(message),
     status |-> None, statusCode |-> Some(Coalesce(statusCode, 500)),
     provider |-> provider, code |-> code, originalError |-> originalError]

APIKeyError(provider) ==
    [LLMError(<<"API key not configured for ", provider>>, Some(401),
              Some(provider), Some("API_KEY_MISSING"), None)
       EXCEPT !.cls = "APIKeyError", !.name = Some("APIKeyError")]

TimeoutError(provider, timeout) ==
    [LLMError(<<"Request to ", provider, " timed out after ", ToString(timeout), "ms">>,
              Some(408), Some(provider), Some("TIMEOUT"), None)
       EXCEPT !.cls = "TimeoutError", !.name = Some("TimeoutError")]

UnsupportedProviderError(provider) ==
    [LLMError(<<"Unsupported LLM provider: ", provider>>, Some(400),
              None, Some("UNSUPPORTED_PROVIDER"), None)
       EXCEPT !.cls = "UnsupportedProviderError",
              !.name = Some("UnsupportedProviderError")]

(* the classes of the taxonomy: error instanceof LLMError *)
Taxonomy == {"LLMError", "APIKeyError", "TimeoutError", "UnsupportedProviderError"}

instanceofLLMError(error) == error.cls \in Taxonomy

(* what the runtime throws on a property read of undefined or null *)
TypeError(what) ==
    Thrown("TypeError", Some("TypeError"),
           Some(<<"Cannot read properties of ", what>>), None)

(* what JSON.stringify throws on an object graph with a cycle *)
CircularError ==
    Thrown("TypeError", Some("TypeError"),
           Some(<<"Converting circular structure to JSON">>), None)

(* a message string is empty when all of its fragments are *)
emptyString(s) == \A i \in 1..Len(s) : s[i] = ""

-----------------------------------------------------------------------------
(* core/types.ts: LLMConfig.  Every field is optional in the record (a     *)
(* Partial<LLMConfig> has the same shape); None is a key that is missing   *)
(* or undefined.                                                           *)

ConfigFields == {"model", "provider", "temperature", "maxTokens", "topP",
                 "systemPrompt", "schema", "timeout", "reasoning",
                 "enableTracing", "traceMetadata"}

EmptyConfig == [f \in ConfigFields |-> None]

(* { ...a, ...b } *)
spread(a, b) == [f \in ConfigFields |-> IF b[f] # None THEN b[f] ELSE a[f]]

(* a constructor that keeps a timeout unless it is undefined: ?? for ||   *)
createLLM_nullishTimeout(config) ==
    [config EXCEPT
       !["provider"] =
           Some(IF config["provider"] # None /\ config["provider"][1] # ""
                THEN config["provider"][1]
                ELSE detectProvider(config["model"][1])),
       !["timeout"] = Some(Coalesce(config["timeout"], DEFAULT_TIMEOUT)),
       !["enableTracing"] = Some(Coalesce(config["enableTracing"], TRUE))]

(* a constructor that adds a grace period of one second to the timeout *)
createLLM_grace(config) ==
    [config EXCEPT
       !["provider"] =
           Some(IF config["provider"] # None /\ config["provider"][1] # ""
                THEN config["provider"][1]
                ELSE detectProvider(config["model"][1])),
       !["timeout"] =
           Some((IF config["timeout"] # None /\ config["timeout"][1] # 0
                 THEN config["timeout"][1]
                 ELSE DEFAULT_TIMEOUT) + 1000),
       !["enableTracing"] = Some(Coalesce(config["enableTracing"], TRUE))]

(* core/llm.ts: the constructor of LLM; the result is this.config *)
createLLM(config) ==
    [config EXCEPT
       !["provider"] =
           Some(IF config["provider"] # None /\ config["provider"][1] # ""
                THEN config["provider"][1]
                ELSE detectProvider(config["model"][1])),
       !["timeout"] =
           Some(IF config["timeout"] # None /\ config["timeout"][1] # 0
                THEN config["timeout"][1]
                ELSE DEFAULT_TIMEOUT),
       !["enableTracing"] = Some(Coalesce(config["enableTracing"], TRUE))]

(* core/llm.ts: getConfig *)
getConfig(config) == [f \in ConfigFields |-> config[f]]

-----------------------------------------------------------------------------
(* providers/openai.ts: request construction.                              *)

StringPrompt(text) == [t |-> "string", v |-> text]

MessagesPrompt(messages) == [t |-> "messages", v |-> messages]

(* a conversion that puts the system turn after the caller's turns *)
formatInput_systemLast(messages, systemPrompt) ==
    LET system ==
          IF systemPrompt # None /\ systemPrompt[1] # ""
          THEN <<[role |-> "system", content |-> systemPrompt[1]]>>
          ELSE <<>>
    IN IF messages.t = "string"
       THEN <<[role |-> "user", content |-> messages.v]>> \o system
       ELSE messages.v \o system

formatInput(messages, systemPrompt) ==
    LET system ==
          IF systemPrompt # None /\ systemPrompt[1] # ""
          THEN <<[role |-> "system", content |-> systemPrompt[1]]>>
          ELSE <<>>
    IN IF messages.t = "string"
       THEN Append(system, [role |-> "user", content |-> messages.v])
       ELSE system \o messages.v

(* config.schema is set and truthy *)
wantsSchema(config) == config["schema"] # None /\ truthy(config["schema"][1])

(* the ResponseCreateParams of lines 135-149, given the format directive *)
paramsWith(prompt, config, format) ==
    [model |-> config["model"],
     input |-> formatInput(prompt, config["systemPrompt"]),
     temperature |-> Some(Coalesce(config["temperature"], "0.7")),
     top_p |-> config["topP"],
     max_output_tokens |-> config["maxTokens"],
     reasoning |-> IF config["reasoning"] # None /\ config["reasoning"][1] # ""
                   THEN Some([effort |-> config["reasoning"][1]])
                   ELSE None,
     text |-> IF format = None THEN None ELSE Some([format |-> format[1]])]

(* lines 135-149; None when the schema conversion throws *)
buildParams(prompt, config) ==
    IF ~wantsSchema(config)
    THEN Some(paramsWith(prompt, config, None))
    ELSE IF hasCycle(config["schema"][1])
    THEN None
    ELSE Some(paramsWith(prompt, config,
                         convertSchemaToResponseFormat(config["schema"][1])))

-----------------------------------------------------------------------------
(* JSON.parse on a text given as the sequence of its lexemes.              *)

Punct(ch) == [t |-> "punct", v |-> ch]

Lit(word) == [t |-> "lit", v |-> word]       \* null, true, false

NumLex(digits) == [t |-> "num", v |-> digits]

StrLex(chars) == [t |-> "str", v |-> chars]  \* a quoted string

Word(chars) == [t |-> "word", v |-> chars]   \* anything that is no JSON lexeme

lexAt(text, i) == IF i <= Len(text) THEN text[i] ELSE [t |-> "eof", v |-> ""]

ParseFail == [ok |-> FALSE, val |-> JNull, next |-> 0]

Parsed(val, next) == [ok |-> TRUE, val |-> val, next |-> next]

RECURSIVE parseValue(_, _)
RECURSIVE parseElements(_, _, _)
RECURSIVE parseMembers(_, _, _)

parseValue(text, i) ==
    CASE lexAt(text, i).t = "lit" ->
           Parsed(IF lexAt(text, i).v = "null" THEN JNull
                  ELSE JBool(lexAt(text, i).v = "true"), i + 1)
      [] lexAt(text, i).t = "num" -> Parsed(JNum(lexAt(text, i).v), i + 1)
      [] lexAt(text, i).t = "str" -> Parsed(JStr(lexAt(text, i).v), i + 1)
      [] lexAt(text, i) = Punct("[") ->
           IF lexAt(text, i + 1) = Punct("]")
           THEN Parsed(JArr(<<>>), i + 2)
           ELSE parseElements(text, i + 1, <<>>)
      [] lexAt(text, i) = Punct("{") ->
           IF lexAt(text, i + 1) = Punct("}")
           THEN Parsed(JObj(<<>>), i + 2)
           ELSE parseMembers(text, i + 1, JObj(<<>>))
      [] OTHER -> ParseFail

(* after the element r of an array: a comma, the closing bracket or an error *)
afterElement(text, acc, r) ==
    IF ~r.ok THEN ParseFail
    ELSE IF lexAt(text, r.next) = Punct(",")
    THEN parseElements(text, r.next + 1, Append(acc, r.val))
    ELSE IF lexAt(text, r.next) = Punct("]")
    THEN Parsed(JArr(Append(acc, r.val)), r.next + 1)
    ELSE ParseFail

parseElements(text, i, acc) == afterElement(text, acc, parseValue(text, i))

(* after the value r of the member named key *)
afterMember(text, acc, key, r) ==
    IF ~r.ok THEN ParseFail
    ELSE IF lexAt(text, r.next) = Punct(",")
    THEN parseMembers(text, r.next + 1, setProp(acc, key, r.val))
    ELSE IF lexAt(text, r.next) = Punct("}")
    THEN Parsed(setProp(acc, key, r.val), r.next + 1)
    ELSE ParseFail

parseMembers(text, i, acc) ==
    IF lexAt(text, i).t # "str" \/ lexAt(text, i + 1) # Punct(":")
    THEN ParseFail
    ELSE afterMember(text, acc, lexAt(text, i).v, parseValue(text, i + 2))

(* the whole text must be one value *)
wholeText(text, r) == IF r.ok /\ r.next = Len(text) + 1 THEN Some(r.val) ELSE None

(* None when JSON.parse throws its SyntaxError *)
JSONparse(text) == wholeText(text, parseValue(text, 1))

-----------------------------------------------------------------------------
(* providers/openai.ts: what generateWithOpenAI does once the backend      *)
(* call has settled.                                                       *)

Return(value) == [t |-> "return", v |-> value]

Throw(error) == [t |-> "throw", v |-> error]

UnsupportedFormat ==
    LLMError(<<"Unsupported OpenAI response format">>, Some(500), Some("openai"),
             None, None)

(* an extraction that takes the first message item wherever it stands and *)
(* returns an empty text when that item holds no output text               *)
extractFrom_lenient(output) ==
    IF \E i \in 1..Len(output) : output[i].type = "message"
    THEN LET item == output[CHOOSE i \in 1..Len(output) :
                              /\ output[i].type = "message"
                              /\ \A j \in 1..(i - 1) : output[j].type # "message"]
         IN IF /\ item.content # None
               /\ Len(item.content[1]) >= 1
               /\ item.content[1][1].type = "output_text"
            THEN Return(item.content[1][1].text)
            ELSE Return(<<>>)
    ELSE Throw(UnsupportedFormat)

(* lines 157-168 for a reply that has an output list *)
extractFrom(output) ==
    IF Len(output) >= 1 /\ output[1].type = "message"
    THEN IF output[1].content = None
         THEN Throw(TypeError("undefined (reading '0')"))
         ELSE IF Len(output[1].content[1]) = 0
         THEN Throw(TypeError("undefined (reading 'type')"))
         ELSE IF output[1].content[1][1].type = "output_text"
         THEN Return(output[1].content[1][1].text)
         ELSE Throw(UnsupportedFormat)
    ELSE Throw(UnsupportedFormat)

(* lines 156-168: the text of the reply, or what the extraction throws *)
extractContent(completion) ==
    IF completion.output = None
    THEN Throw(TypeError("undefined (reading '0')"))
    ELSE extractFrom(completion.output[1])

(* a parse that does not look at config.schema *)
parseStructuredOutput_always(config, content) ==
    IF Len(content) > 0 THEN JSONparse(content) ELSE None

(* lines 170-177 *)
parseStructuredOutput(config, content) ==
    IF wantsSchema(config) /\ Len(content) > 0
    THEN JSONparse(content)
    ELSE None

(* lines 179-191 *)
assemble(completion, config, content) ==
    [content |-> content,
     provider |-> "openai",
     model |-> config["model"],
     usage |-> IF completion.usage # None
               THEN Some([inputTokens |-> completion.usage[1].input_tokens,
                          outputTokens |-> completion.usage[1].output_tokens,
                          totalTokens |-> completion.usage[1].total_tokens])
               ELSE None,
     structuredOutput |-> parseStructuredOutput(config, content)]

(* lines 156-191: the body of the try block after the await *)
handleCompletion(completion, config) ==
    IF extractContent(completion).t = "throw"
    THEN extractContent(completion)
    ELSE Return(assemble(completion, config, extractContent(completion).v))

(* the catch block without `if (error instanceof LLMError) throw error` *)
catchError_wrapAll(error, config) ==
    IF error.cls = "null" THEN TypeError("null (reading 'name')")
    ELSE IF error.name = Some("AbortError")
    THEN TimeoutError("openai", Coalesce(config["timeout"], 90000))
    ELSE LLMError(IF error.message # None /\ ~emptyString(error.message[1])
                  THEN error.message[1]
                  ELSE <<"OpenAI generation failed">>,
                  Some(IF error.status # None /\ error.status[1] # 0
                       THEN error.status[1]
                       ELSE 500),
                  Some("openai"), None, Some(error))

(* the catch block without the AbortError case *)
catchError_noAbort(error, config) ==
    IF instanceofLLMError(error) THEN error
    ELSE IF error.cls = "null" THEN TypeError("null (reading 'name')")
    ELSE LLMError(IF error.message # None /\ ~emptyString(error.message[1])
                  THEN error.message[1]
                  ELSE <<"OpenAI generation failed">>,
                  Some(IF error.status # None /\ error.status[1] # 0
                       THEN error.status[1]
                       ELSE 500),
                  Some("openai"), None, Some(error))

(* lines 192-206: the catch block; the result is what leaves the function *)
catchError(error, config) ==
    IF instanceofLLMError(error) THEN error
    ELSE IF error.cls = "null" THEN TypeError("null (reading 'name')")
    ELSE IF error.name = Some("AbortError")
    THEN TimeoutError("openai", Coalesce(config["timeout"], 90000))
    ELSE LLMError(IF error.message # None /\ ~emptyString(error.message[1])
                  THEN error.message[1]
                  ELSE <<"OpenAI generation failed">>,
                  Some(IF error.status # None /\ error.status[1] # 0
                       THEN error.status[1]
                       ELSE 500),
                  Some("openai"), None, Some(error))

(* lines 151-206: the outcome of the backend call, a reply or a thrown     *)
(* value, to the settlement of generateWithOpenAI                          *)
caught(done, config) ==
    IF done.t = "throw" THEN Throw(catchError(done.v, config)) ELSE done

settleOpenAI(outcome, config) ==
    IF outcome.t = "throw"
    THEN Throw(catchError(outcome.v, config))
    ELSE caught(handleCompletion(outcome.v, config), config)

-----------------------------------------------------------------------------
(* providers/openai.ts: the client singleton.                              *)

(* new OpenAI({ apiKey }), wrapped by observeOpenAI when traced *)
Client(id, apiKey, traced) == [id |-> id, apiKey |-> apiKey, traced |-> traced]

(* getOpenAIClient without the `if (!openaiClient)` test *)
getOpenAIClient_perCall(enableTracing) ==
    IF envKey = None \/ envKey[1] = ""
    THEN [error |-> Some(APIKeyError("openai")), client |-> None, made |-> 0]
    ELSE [error |-> None,
          client |-> Some(Client(constructed + 1, envKey[1], enableTracing)),
          made |-> 1]

(* getOpenAIClient wrapping or unwrapping the singleton on every call *)
getOpenAIClient_rewrap(enableTracing) ==
    IF openaiClient = None
    THEN IF envKey = None \/ envKey[1] = ""
         THEN [error |-> Some(APIKeyError("openai")), client |-> None, made |-> 0]
         ELSE [error |-> None,
               client |-> Some(Client(constructed + 1, envKey[1], enableTracing)),
               made |-> 1]
    ELSE [error |-> None,
          client |-> Some([openaiClient[1] EXCEPT !.traced = enableTracing]),
          made |-> 0]

(* getOpenAIClient without the `if (!apiKey)` test *)
getOpenAIClient_noKeyCheck(enableTracing) ==
    IF openaiClient = None
    THEN [error |-> None,
          client |-> Some(Client(constructed + 1, Coalesce(envKey, ""), enableTracing)),
          made |-> 1]
    ELSE [error |-> None, client |-> openaiClient, made |-> 0]

(* getOpenAIClient that reads the key on every call, before it looks at    *)
(* the singleton                                                           *)
getOpenAIClient_keyEachCall(enableTracing) ==
    IF envKey = None \/ envKey[1] = ""
    THEN [error |-> Some(APIKeyError("openai")), client |-> openaiClient, made |-> 0]
    ELSE IF openaiClient = None
    THEN [error |-> None,
          client |-> Some(Client(constructed + 1, envKey[1], enableTracing)),
          made |-> 1]
    ELSE [error |-> None, client |-> openaiClient, made |-> 0]

(* The effect of getOpenAIClient(enableTracing) in the current state:      *)
(* error is what it throws, client the value of openaiClient afterwards    *)
(* (and the handle returned), made the number of clients constructed.      *)
getOpenAIClient(enableTracing) ==
    IF openaiClient = None
    THEN IF envKey = None \/ envKey[1] = ""
         THEN [error |-> Some(APIKeyError("openai")), client |-> None, made |-> 0]
         ELSE [error |-> None,
               client |-> Some(Client(constructed + 1, envKey[1], enableTracing)),
               made |-> 1]
    ELSE [error |-> None, client |-> openaiClient, made |-> 0]

-----------------------------------------------------------------------------
(* The entry points.  A call holds: pc, where it stands; entry, the        *)
(* function the caller called; args, its arguments; config, the            *)
(* configuration passed to the adapter; client, the handle the adapter     *)
(* got; sent, the backend requests it issued; outcome, how its backend     *)
(* request settled; response, the Response the adapter returned; result,   *)
(* how the call itself settled.                                            *)

Entries == {"LLM.generate", "generate", "generateStructured", "generateWithOpenAI"}

Args(prompt, model, schema, options) ==
    [prompt |-> prompt, model |-> model, schema |-> schema, options |-> options]

IdleCall ==
    [pc |-> "idle", entry |-> "", args |-> Args(StringPrompt(""), None, None, EmptyConfig),
     config |-> None, client |-> None, sent |-> <<>>, outcome |-> None,
     response |-> None, result |-> None]

(* core/llm.ts: the configuration each entry point hands to createLLM;     *)
(* generateWithOpenAI takes the caller's configuration as it is            *)
entryConfig(entry, args) ==
    CASE entry = "generate" ->
           spread([EmptyConfig EXCEPT !["model"] = args.model], args.options)
      [] entry = "generateStructured" ->
           spread([EmptyConfig EXCEPT !["model"] = args.model,
                                      !["schema"] = args.schema],
                  args.options)
      [] OTHER -> args.options

(* val ?? fallback on an optional JSON value: undefined and null are nullish *)
orElse(val, fallback) ==
    IF val = None \/ val[1].t \in {"null", "undefined"} THEN fallback ELSE val[1]

(* generateStructured that returns response.structuredOutput as it is *)
entryReturn_raw(entry, response) ==
    CASE entry = "generate" -> [t |-> "string", v |-> response.content]
      [] entry = "generateStructured" ->
           [t |-> "object", v |-> IF response.structuredOutput = None
                                  THEN JUndefined
                                  ELSE response.structuredOutput[1]]
      [] OTHER -> [t |-> "response", v |-> response]

(* core/llm.ts: what each entry point returns for the adapter's Response *)
entryReturn(entry, response) ==
    CASE entry = "generate" -> [t |-> "string", v |-> response.content]
      [] entry = "generateStructured" ->
           [t |-> "object", v |-> orElse(response.structuredOutput, JObj(<<>>))]
      [] OTHER -> [t |-> "response", v |-> response]

(* the effect of a step on its call and on the singleton *)
Effect(rec, client, made) == [rec |-> rec, client |-> client, made |-> made]

(* lines 133-154, with the client got and the request parameters params *)
issueRequest(rec, config, got, params) ==
    IF params = None
    THEN Effect([rec EXCEPT !.pc = "failed", !.client = got.client,
                            !.result = Some(Throw(CircularError))],
                got.client, got.made)
    ELSE Effect([rec EXCEPT !.pc = "awaiting", !.client = got.client,
                            !.sent = Append(rec.sent,
                                [params |-> params[1],
                                 options |-> [timeout |-> config["timeout"]]])],
                got.client, got.made)

(* line 132 and what follows it, with the effect got of getOpenAIClient *)
acquired(rec, prompt, config, got) ==
    IF got.error # None
    THEN Effect([rec EXCEPT !.pc = "failed", !.result = Some(Throw(got.error[1]))],
                openaiClient, 0)
    ELSE issueRequest(rec, config, got, buildParams(prompt, config))

(* providers/openai.ts lines 132-154: generateWithOpenAI up to its await.  *)
(* The result is the call record and the singleton afterwards.             *)
startOpenAI(rec, prompt, config) ==
    acquired(rec, prompt, config,
             getOpenAIClient(Coalesce(config["enableTracing"], TRUE)))

(* LLM.generate whose default case falls back to the OpenAI adapter *)
dispatch_fallback(rec, prompt, config) == startOpenAI(rec, prompt, config)

(* core/llm.ts lines 64-72: LLM.generate on a dispatcher holding config *)
dispatch(rec, prompt, config) ==
    IF config["provider"][1] = "openai"
    THEN startOpenAI(rec, prompt, config)
    ELSE Effect([rec EXCEPT !.pc = "failed",
                    !.result = Some(Throw(UnsupportedProviderError(config["provider"][1])))],
                openaiClient, 0)

(* the configuration the adapter is given: the dispatcher's resolved one,  *)
(* or the caller's own on a direct call of generateWithOpenAI              *)
adapterConfig(entry, args) ==
    IF entry = "generateWithOpenAI"
    THEN entryConfig(entry, args)
    ELSE createLLM(entryConfig(entry, args))

(* an entry point run to its first await *)
enter(rec, entry, args, config) ==
    IF entry = "generateWithOpenAI"
    THEN startOpenAI([rec EXCEPT !.entry = entry, !.args = args,
                                 !.config = Some(config)], args.prompt, config)
    ELSE dispatch([rec EXCEPT !.entry = entry, !.args = args,
                              !.config = Some(config)], args.prompt, config)

Apply(c, effect) ==
    /\ call' = [call EXCEPT ![c] = effect.rec]
    /\ openaiClient' = effect.client
    /\ constructed' = constructed + effect.made

(* A caller calls an entry point.  JavaScript runs the call to its first   *)
(* await without interruption: the dispatcher is built, the provider is    *)
(* resolved, the client is acquired and the request is issued in one step. *)
Invoke(c, entry, args) ==
    /\ call[c].pc = "idle"
    /\ Apply(c, enter(call[c], entry, args, adapterConfig(entry, args)))
    /\ UNCHANGED <<envKey, heap, llms, held>>

(* The backend settles the request of call c: a reply or a thrown value. *)
BackendSettle(c, outcome) ==
    /\ call[c].pc = "awaiting"
    /\ call' = [call EXCEPT ![c].pc = "settled", ![c].outcome = Some(outcome)]
    /\ UNCHANGED <<envKey, openaiClient, constructed, heap, llms, held>>

(* a call that issues its request once more when the first attempt failed *)
settled_retry(rec, done) ==
    IF done.t = "throw" /\ Len(rec.sent) < 2
    THEN [rec EXCEPT !.pc = "awaiting", !.outcome = None,
                     !.sent = Append(rec.sent, rec.sent[1])]
    ELSE [rec EXCEPT
            !.pc = IF done.t = "throw" THEN "failed" ELSE "returned",
            !.response = IF done.t = "throw" THEN None ELSE Some(done.v),
            !.result = Some(IF done.t = "throw" THEN done
                            ELSE Return(entryReturn(rec.entry, done.v)))]

(* the call record once generateWithOpenAI has settled with done *)
settled(rec, done) ==
    [rec EXCEPT
       !.pc = IF done.t = "throw" THEN "failed" ELSE "returned",
       !.response = IF done.t = "throw" THEN None ELSE Some(done.v),
       !.result = Some(IF done.t = "throw" THEN done
                       ELSE Return(entryReturn(rec.entry, done.v)))]

(* The call resumes after its await and settles. *)
Resume(c) ==
    /\ call[c].pc = "settled"
    /\ call' = [call EXCEPT ![c] = settled(call[c], settleOpenAI(call[c].outcome[1],
                                                                 call[c].config[1]))]
    /\ UNCHANGED <<envKey, openaiClient, constructed, heap, llms, held>>

(* The caller has taken the result; the slot is free for another call. *)
Finish(c) ==
    /\ call[c].pc \in {"returned", "failed"}
    /\ call' = [call EXCEPT ![c] = IdleCall]
    /\ UNCHANGED <<envKey, openaiClient, constructed, heap, llms, held>>

(* The environment variable is set, emptied or removed. *)
SetEnv(key) ==
    /\ envKey # key
    /\ envKey' = key
    /\ UNCHANGED <<openaiClient, constructed, call, heap, llms, held>>

-----------------------------------------------------------------------------
(* The values the callers and the backend are drawn from.                  *)

GPT4 == <<"g", "p", "t", "-", "4">>

ClaudeSonnet == <<"C", "l", "a", "u", "d", "e", "-", "3", "-", "5", "-",
                  "S", "o", "n", "n", "e", "t">>

GeminiPro == <<"g", "e", "m", "i", "n", "i", "-", "p", "r", "o">>

Llama70b == <<"l", "l", "a", "m", "a", "-", "7", "0", "b">>

(* identifiers with markers of several families, in upper case, empty:     *)
(* claude-gpt, gemini-claude, palm-2, GEMINI-PRO, o1-mini,                 *)
(* text-davinci-003, PaLM-Ada, Claude-PaLM and the empty string            *)
MixedModels ==
    {<<"c", "l", "a", "u", "d", "e", "-", "g", "p", "t">>,
     <<"g", "e", "m", "i", "n", "i", "-", "c", "l", "a", "u", "d", "e">>,
     <<"p", "a", "l", "m", "-", "2">>,
     <<"G", "E", "M", "I", "N", "I", "-", "P", "R", "O">>,
     <<"o", "1", "-", "m", "i", "n", "i">>,
     <<"t", "e", "x", "t", "-", "d", "a", "v", "i", "n", "c", "i", "-", "0", "0", "3">>,
     <<"P", "a", "L", "M", "-", "A", "d", "a">>,
     <<"C", "l", "a", "u", "d", "e", "-", "P", "a", "L", "M">>,
     <<>>}

SentimentSchema ==
    JObj(<< <<"type", JStr("object")>>,
            <<"properties",
              JObj(<< <<"sentiment", JObj(<< <<"type", JStr("string")>> >>)>>,
                      <<"confidence", JObj(<< <<"type", JStr("number")>> >>)>> >>)>>,
            <<"required", JArr(<<JStr("sentiment"), JStr("confidence")>>)>> >>)

(* a schema with objects under properties, items, anyOf, allOf and oneOf,  *)
(* two levels deep, one of them with additionalProperties set by the       *)
(* caller                                                                  *)
DeepSchema ==
    JObj(<< <<"title", JStr("Order")>>,
            <<"type", JStr("object")>>,
            <<"properties",
              JObj(<< <<"address",
                        JObj(<< <<"type", JStr("object")>>,
                                <<"properties",
                                  JObj(<< <<"geo", JObj(<< <<"type", JStr("object")>> >>)>> >>)>> >>)>>,
                      <<"lines",
                        JObj(<< <<"type", JStr("array")>>,
                                <<"items",
                                  JObj(<< <<"type", JStr("object")>>,
                                          <<"additionalProperties", JBool(TRUE)>>,
                                          <<"properties",
                                            JObj(<< <<"sku", JObj(<< <<"type", JStr("object")>> >>)>> >>)>> >>)>> >>)>>,
                      <<"payment",
                        JObj(<< <<"anyOf",
                                  JArr(<<JObj(<< <<"type", JStr("object")>> >>),
                                         JObj(<< <<"type", JStr("string")>> >>)>>)>> >>)>> >>)>>,
            <<"allOf", JArr(<<JObj(<< <<"type", JStr("object")>> >>)>>)>>,
            <<"oneOf", JArr(<<JObj(<< <<"oneOf",
                                        JArr(<<JObj(<< <<"type", JStr("object")>> >>)>>)>> >>)>>)>> >>)

(* an array schema whose items are given per position *)
TupleSchema ==
    JObj(<< <<"type", JStr("array")>>,
            <<"items", JArr(<<JObj(<< <<"type", JStr("object")>> >>),
                              JObj(<< <<"type", JStr("string")>> >>)>>)>> >>)

(* a schema one of whose properties refers back to the schema itself *)
CyclicSchema ==
    JObj(<< <<"type", JStr("object")>>,
            <<"properties", JObj(<< <<"self", JCycle>> >>)>> >>)

Config(model, provider, timeout, enableTracing, schema) ==
    [EmptyConfig EXCEPT !["model"] = model, !["provider"] = provider,
                        !["timeout"] = timeout, !["enableTracing"] = enableTracing,
                        !["schema"] = schema]

Question == StringPrompt("What is 2+2?")

Conversation ==
    MessagesPrompt(<<[role |-> "user", content |-> "Hi"],
                     [role |-> "assistant", content |-> "Hello"],
                     [role |-> "user", content |-> "What is 2+2?"]>>)

(* reply texts *)
TextFour == <<NumLex("4")>>

TextSentiment ==
    <<Punct("{"), StrLex("sentiment"), Punct(":"), StrLex("positive"), Punct(","),
      StrLex("confidence"), Punct(":"), NumLex("0.9"), Punct("}")>>

TextProse == <<Word("Sure,"), Word("here"), Word("it"), Word("is")>>

TextTruncated == <<Punct("{"), StrLex("sentiment"), Punct(":")>>

TextNull == <<Lit("null")>>

TextEmpty == <<>>

OutputText(text) == [type |-> "output_text", text |-> text]

Refusal == [type |-> "refusal", text |-> <<Word("no")>>]

Message(parts) == [type |-> "message", content |-> Some(parts)]

FunctionCall == [type |-> "function_call", content |-> None]

Usage(input, output, total) ==
    [input_tokens |-> input, output_tokens |-> output, total_tokens |-> total]

Reply(output, usage) == [t |-> "reply", v |-> [output |-> output, usage |-> usage]]

Raise(error) == [t |-> "throw", v |-> error]

AcceptedReplies ==
    {Reply(Some(<<Message(<<OutputText(text)>>)>>), usage) :
        text \in {TextFour, TextSentiment, TextProse, TextTruncated, TextNull, TextEmpty},
        usage \in {None, Some(Usage(12, 3, 15))}}
    \cup {Reply(Some(<<Message(<<OutputText(TextFour), Refusal>>), FunctionCall>>), None),
          Reply(Some(<<Message(<<OutputText(TextFour)>>)>>), Some(Usage(12, 3, 20)))}

RejectedReplies ==
    {Reply(Some(<<>>), None),
     Reply(Some(<<FunctionCall, Message(<<OutputText(TextFour)>>)>>), None),
     Reply(Some(<<Message(<<>>)>>), None),
     Reply(Some(<<Message(<<Refusal>>)>>), None),
     Reply(Some(<<Message(<<Refusal, OutputText(TextFour)>>)>>), None),
     Reply(None, None)}

AbortError == Thrown("Error", Some("AbortError"), Some(<<"Request was aborted.">>), None)

ThrownNull == Thrown("null", None, None, None)

BackendErrors ==
    {Thrown("Error", Some("Error"), Some(<<"Rate limit exceeded">>), Some(429)),
     Thrown("Error", Some("Error"), Some(<<"Connection error.">>), None),
     Thrown("Error", Some("Error"), Some(<<"">>), Some(503)),
     Thrown("Object", None, None, None)}

(* errors of the taxonomy that come out of the backend call itself *)
TaxonomyThrows ==
    {LLMError(<<"quota exhausted">>, Some(429), Some("openai"), Some("QUOTA"), None),
     TimeoutError("openai", 1234)}

AllOutcomes ==
    AcceptedReplies \cup RejectedReplies
    \cup {Raise(e) : e \in BackendErrors \cup TaxonomyThrows \cup {AbortError, ThrownNull}}

AllKeys == {None, Some(""), Some("sk-test")}

OptProviders == {None, Some("openai"), Some("anthropic"), Some("gemini")}

OptTimeouts == {None, Some(0), Some(5000)}

OptTracing == {None, Some(TRUE), Some(FALSE)}

OptSchemas == {None, Some(SentimentSchema), Some(CyclicSchema)}

AllConfigs ==
    {Config(Some(m), p, t, e, s) :
        m \in {GPT4, ClaudeSonnet, GeminiPro, Llama70b}, p \in OptProviders,
        t \in OptTimeouts, e \in OptTracing, s \in OptSchemas}

(* configurations with the fields the request is built from: terse, with  *)
(* a reasoning level; temperature 0 and an empty system prompt; sampling   *)
(* limits only                                                             *)
RichConfigs ==
    {[Config(Some(GPT4), None, None, None, None)
         EXCEPT !["systemPrompt"] = Some("Be terse."), !["reasoning"] = Some("low")],
     [Config(Some(GPT4), None, None, None, Some(SentimentSchema))
         EXCEPT !["systemPrompt"] = Some(""), !["temperature"] = Some("0")],
     [Config(Some(GPT4), None, None, None, None)
         EXCEPT !["temperature"] = Some("1.5"), !["topP"] = Some("0.9"),
                !["maxTokens"] = Some(256)]}

AllOptions ==
    {EmptyConfig,
     [EmptyConfig EXCEPT !["systemPrompt"] = Some("Be terse."),
                         !["temperature"] = Some("0"), !["maxTokens"] = Some(256)],
     Config(None, None, Some(5000), Some(FALSE), None),
     Config(None, Some("gemini"), None, None, None),
     Config(Some(Llama70b), None, Some(0), None, Some(CyclicSchema)),
     Config(Some(Llama70b), None, None, None, None),
     Config(None, None, None, None, Some(TupleSchema))}

(* the arguments a caller may pass to each entry point *)
AllArgs(entry) ==
    CASE entry = "generate" ->
           {Args(p, Some(m), None, o) :
               p \in {Question, Conversation}, m \in {GPT4, ClaudeSonnet},
               o \in AllOptions}
      [] entry = "generateStructured" ->
           {Args(p, Some(m), Some(s), o) :
               p \in {Question}, m \in {GPT4, ClaudeSonnet},
               s \in {SentimentSchema, CyclicSchema}, o \in AllOptions}
           \cup {Args(Question, Some(GPT4), Some(s), EmptyConfig) :
                    s \in {DeepSchema, TupleSchema}}
      [] entry = "LLM.generate" ->
           {Args(p, None, None, cfg) : p \in {Question}, cfg \in AllConfigs}
           \cup {Args(Question, None, None, Config(Some(m), None, None, None, None)) :
                    m \in MixedModels}
      [] OTHER ->
           {Args(p, None, None, cfg) :
               p \in {Question, Conversation},
               cfg \in {k \in AllConfigs : k["model"] = Some(GPT4) /\ k["provider"] = None}}
           \cup {Args(p, None, None, cfg) :
                    p \in {Question, Conversation, MessagesPrompt(<<>>)},
                    cfg \in RichConfigs}

(* the few arguments and outcomes calls race with *)
RaceArgs(entry) ==
    CASE entry = "generate" -> {Args(Question, Some(GPT4), None, EmptyConfig)}
      [] entry = "generateStructured" ->
           {Args(Question, Some(GPT4), Some(SentimentSchema), EmptyConfig)}
      [] entry = "LLM.generate" ->
           {Args(Question, None, None, Config(Some(m), None, None, e, None)) :
               m \in {GPT4, ClaudeSonnet}, e \in {Some(TRUE), Some(FALSE)}}
      [] OTHER ->
           {Args(Question, None, None, Config(Some(GPT4), None, None, None, None))}

RaceOutcomes ==
    {Reply(Some(<<Message(<<OutputText(TextSentiment)>>)>>), Some(Usage(12, 3, 15))),
     Raise(AbortError)}

RaceKeys == {None, Some("sk-test")}

-----------------------------------------------------------------------------
(* Objects and references.  A configuration object on the heap has the     *)
(* fields of LLMConfig; its schema and traceMetadata fields hold a         *)
(* reference to a tree, a JSON value that lives in a cell of its own.  An  *)
(* object spread ({ ...config }) copies the fields, so the copy refers to  *)
(* the same trees.                                                         *)

(* Numbers of configuration objects, of trees and of dispatchers. *)
MaxObjects == 4

MaxTrees == 3

MaxLLMs == 2

(* Number of configuration objects a caller writes itself. *)
MaxLiterals == 1

TreeAddrs == 1..MaxTrees

(* objs: the configuration objects, in order of allocation; trees: the     *)
(* cells, None when free; request: the cell the schema of the last request *)
(* was built in, 0 when there is none                                      *)
EmptyHeap == [objs |-> <<>>, trees |-> [a \in TreeAddrs |-> None], request |-> 0]

Ref(a) == [ref |-> a]

freeCells(trees) == {a \in TreeAddrs : trees[a] = None}

(* a cell and the trees once val has been stored in a new cell *)
Stored(trees, at) == [trees |-> trees, at |-> at]

newCell(trees) == CHOOSE a \in freeCells(trees) : \A b \in freeCells(trees) : a <= b

store(trees, val) ==
    Stored([trees EXCEPT ![newCell(trees)] = Some(val)], newCell(trees))

(* the value of a field that holds a reference *)
derefField(v) == IF v = None THEN None ELSE heap.trees[v[1].ref]

(* the configuration object obj with its trees: what a reader of obj sees *)
deref(obj) ==
    [obj EXCEPT !["schema"] = derefField(obj["schema"]),
                !["traceMetadata"] = derefField(obj["traceMetadata"])]

(* the cells an object of the heap refers to *)
referenced ==
    {a \in TreeAddrs : \E i \in 1..Len(heap.objs), f \in {"schema", "traceMetadata"} :
        heap.objs[i][f] = Some(Ref(a))}

(* the trees once the request of the finished call has become garbage *)
collected ==
    IF heap.request # 0 /\ heap.request \notin referenced
    THEN [heap.trees EXCEPT ![heap.request] = None]
    ELSE heap.trees

(* the number of cells a configuration value needs *)
cellsOf(cfg) ==
    (IF cfg["schema"] # None THEN 1 ELSE 0)
    + (IF cfg["traceMetadata"] # None THEN 1 ELSE 0)

(* the object literal a caller writes: its trees are stored first *)
withTrace(cfg, s, t) ==
    [objs |-> Append(heap.objs,
                     [cfg EXCEPT !["schema"] = IF s.at = 0 THEN None ELSE Some(Ref(s.at)),
                                 !["traceMetadata"] =
                                     IF t.at = 0 THEN None ELSE Some(Ref(t.at))]),
     trees |-> t.trees,
     request |-> heap.request]

withSchema(cfg, s) ==
    withTrace(cfg, s,
              IF cfg["traceMetadata"] # None
              THEN store(s.trees, cfg["traceMetadata"][1])
              ELSE Stored(s.trees, 0))

literal(cfg) ==
    withSchema(cfg,
               IF cfg["schema"] # None
               THEN store(heap.trees, cfg["schema"][1])
               ELSE Stored(heap.trees, 0))

(* a held reference: to an object the caller wrote (of = 0) or to one that *)
(* getConfig of the dispatcher `of` returned                               *)
Held(obj, of) == [obj |-> obj, of |-> of]

(* a dispatcher: config is this.config; input and resolved are what the    *)
(* configuration it was built from and its own read as at construction;    *)
(* source is the dispatcher whose getConfig result, untouched, it was      *)
(* built from (0 when none)                                                *)
Dispatcher(config, input, resolved, source) ==
    [config |-> config, input |-> input, resolved |-> resolved, source |-> source]

(* the caller has not written to the getConfig result it holds as h *)
untouched(h) ==
    held[h].of # 0 /\ heap.objs[held[h].obj] = heap.objs[llms[held[h].of].config]

(* A caller writes a configuration object. *)
NewConfig(cfg) ==
    /\ Len(heap.objs) < MaxObjects
    /\ Cardinality({h \in 1..Len(held) : held[h].of = 0}) < MaxLiterals
    /\ Cardinality(freeCells(heap.trees)) >= cellsOf(cfg)
    /\ heap' = literal(cfg)
    /\ held' = Append(held, Held(Len(heap.objs) + 1, 0))
    /\ UNCHANGED <<envKey, openaiClient, constructed, call, llms>>

(* core/llm.ts: createLLM(config) on the object held as h.  this.config is *)
(* a new object: the spread of config with the three resolved fields.      *)
Construct(h) ==
    /\ Len(llms) < MaxLLMs
    /\ Len(heap.objs) < MaxObjects
    /\ heap' = [heap EXCEPT !.objs = Append(heap.objs, createLLM(heap.objs[held[h].obj]))]
    /\ llms' = Append(llms,
                      Dispatcher(Len(heap.objs) + 1,
                                 deref(heap.objs[held[h].obj]),
                                 deref(createLLM(heap.objs[held[h].obj])),
                                 IF untouched(h) THEN held[h].of ELSE 0))
    /\ UNCHANGED <<envKey, openaiClient, constructed, call, held>>

(* core/llm.ts: llm.getConfig() on the dispatcher d; the caller keeps the  *)
(* object it returns.                                                      *)
GetConfig(d) ==
    /\ Len(heap.objs) < MaxObjects
    /\ Len(held) < MaxObjects
    /\ heap' = [heap EXCEPT !.objs = Append(heap.objs,
                                            getConfig(heap.objs[llms[d].config]))]
    /\ held' = Append(held, Held(Len(heap.objs) + 1, d))
    /\ UNCHANGED <<envKey, openaiClient, constructed, call, llms>>

(* A caller assigns to a field of an object it holds: obj.f = v. *)
WriteField(h, f, v) ==
    /\ heap.objs[held[h].obj][f] # v
    /\ heap' = [heap EXCEPT !.objs[held[h].obj][f] = v]
    /\ UNCHANGED <<envKey, openaiClient, constructed, call, llms, held>>

(* A caller assigns inside a nested value of an object it holds:           *)
(* obj.schema.title = 'Changed', obj.traceMetadata.title = 'Changed'.      *)
WriteNested(h, f) ==
    /\ heap.objs[held[h].obj][f] # None
    /\ ~hasKey(derefField(heap.objs[held[h].obj][f])[1], "title")
    /\ heap' = [heap EXCEPT !.trees[heap.objs[held[h].obj][f][1].ref] =
                    Some(setProp(derefField(heap.objs[held[h].obj][f])[1],
                                 "title", JStr("Changed")))]
    /\ UNCHANGED <<envKey, openaiClient, constructed, call, llms, held>>

(* providers/openai.ts line 83 on the tree in cell a: the clone is a new   *)
(* tree in a cell of its own                                               *)
cloneTree_alias(trees, a) == Stored(trees, a)

cloneTree(trees, a) == store(trees, jsonClone(trees[a][1]))

(* lines 85-109: processSchema works on the clone, in place *)
processAt(s) ==
    Stored([s.trees EXCEPT ![s.at] = Some(processSchema(s.trees[s.at][1]))], s.at)

(* normalizeSchemaForStrictMode on the schema in cell a *)
normalizeOnHeap(trees, a) == processAt(cloneTree(trees, a))

(* generate on a dispatcher holding obj gets as far as the normalization   *)
(* of its schema                                                           *)
normalizes(obj) ==
    /\ obj["provider"] = Some("openai")
    /\ getOpenAIClient(Coalesce(obj["enableTracing"], TRUE)).error = None
    /\ obj["schema"] # None
    /\ ~hasCycle(derefField(obj["schema"])[1])

(* the heap after generate on a dispatcher holding obj *)
requestBuilt(s) == [heap EXCEPT !.trees = s.trees, !.request = s.at]

heapAfterGenerate(obj) ==
    IF normalizes(obj)
    THEN requestBuilt(normalizeOnHeap(collected, obj["schema"][1].ref))
    ELSE requestBuilt(Stored(collected, 0))

(* core/llm.ts lines 64-72: llm.generate(prompt) on the dispatcher d, run  *)
(* to its first await.                                                     *)
GenerateOn(c, d, prompt) ==
    /\ call[c].pc = "idle"
    /\ freeCells(collected) # {}
    /\ Apply(c, enter(call[c], "LLM.generate",
                      Args(prompt, None, None, llms[d].input),
                      deref(heap.objs[llms[d].config])))
    /\ heap' = heapAfterGenerate(heap.objs[llms[d].config])
    /\ UNCHANGED <<envKey, llms, held>>

(* the configurations callers write, and what they assign later *)
TraceMetadata == JObj(<< <<"user", JStr("u1")>> >>)

HeapConfigs ==
    {[Config(Some(GPT4), None, None, None, Some(SentimentSchema))
         EXCEPT !["traceMetadata"] = Some(TraceMetadata)],
     Config(Some(ClaudeSonnet), None, Some(0), None, None),
     Config(Some(GPT4), Some("gemini"), Some(5000), Some(FALSE), None)}

FieldWrites == {<<"timeout", Some(1)>>}

(* how the backend settles the requests of these dispatchers *)
ConfigOutcomes == {Reply(Some(<<Message(<<OutputText(TextSentiment)>>)>>), None)}

-----------------------------------------------------------------------------
(* Specifications.  Spec: calls race for the singleton.  SpecCall: one     *)
(* call at a time, over every argument and every backend outcome.          *)

keySet == envKey # None /\ envKey[1] # ""

Init ==
    /\ envKey \in RaceKeys
    /\ openaiClient = None
    /\ constructed = 0
    /\ call = [c \in Calls |-> IdleCall]
    /\ heap = EmptyHeap
    /\ llms = <<>>
    /\ held = <<>>

Next ==
    \/ \E c \in Calls, entry \in Entries : \E args \in RaceArgs(entry) :
          Invoke(c, entry, args)
    \/ \E c \in Calls, outcome \in RaceOutcomes : BackendSettle(c, outcome)
    \/ \E c \in Calls : Resume(c)
    \/ \E c \in Calls : Finish(c)
    \/ \E key \in RaceKeys : SetEnv(key)

Spec == Init /\ [][Next]_vars

NextCall ==
    \/ \E entry \in Entries : \E args \in AllArgs(entry) : Invoke(1, entry, args)
    \/ \E outcome \in AllOutcomes : BackendSettle(1, outcome)
    \/ Resume(1)
    \/ Finish(1)
    \/ \E key \in AllKeys : SetEnv(key)

SpecCall == Init /\ [][NextCall]_vars

(* SpecConfig: callers write configuration objects, build dispatchers from *)
(* them, read their configuration back, write to the objects they hold,    *)
(* and generate on the dispatchers, one call at a time.                    *)
NextConfig ==
    \/ \E cfg \in HeapConfigs : NewConfig(cfg)
    \/ \E h \in 1..Len(held) : Construct(h)
    \/ \E d \in 1..Len(llms) : GetConfig(d)
    \/ \E h \in 1..Len(held), w \in FieldWrites : WriteField(h, w[1], w[2])
    \/ \E h \in 1..Len(held), f \in {"schema", "traceMetadata"} : WriteNested(h, f)
    \/ \E d \in 1..Len(llms) : GenerateOn(1, d, Question)
    \/ \E outcome \in ConfigOutcomes : BackendSettle(1, outcome)
    \/ Resume(1)
    \/ Finish(1)

(* the dispatchers of SpecConfig work in a process that has the API key *)
InitConfig == Init /\ keySet

SpecConfig == InitConfig /\ [][NextConfig]_vars

-----------------------------------------------------------------------------
(* Properties.                                                             *)

Ended(c) == call[c].pc \in {"returned", "failed"}

(* the error a failed call failed with *)
errorOf(c) == call[c].result[1].v

(* the call c starts in this step *)
Starts(c) == call[c].pc = "idle" /\ call'[c].pc # "idle"

(* the provider a call through the dispatcher resolves to, from its        *)
(* arguments: the explicit one, else the one detected from the model name  *)
resolvedProvider(entry, args) ==
    IF entryConfig(entry, args)["provider"] # None
    THEN entryConfig(entry, args)["provider"][1]
    ELSE detectProvider(entryConfig(entry, args)["model"][1])

(* the call is routed to the OpenAI adapter *)
routedToOpenAI(entry, args) ==
    entry = "generateWithOpenAI" \/ resolvedProvider(entry, args) = "openai"

(* C1: every generate call ends either with a Response whose content,      *)
(* provider and model are populated or with exactly one error of the       *)
(* taxonomy (LLMError, APIKeyError, TimeoutError,                          *)
(* UnsupportedProviderError); no other kind of error escapes a call.       *)
C1_EveryCallEndsTyped ==
    \A c \in Calls :
        /\ call[c].pc = "failed" => errorOf(c).cls \in Taxonomy
        /\ call[c].pc = "returned" =>
              /\ call[c].response # None
              /\ call[c].response[1].provider = "openai"
              /\ call[c].response[1].model # None
              /\ call[c].response[1].model = call[c].config[1]["model"]

(* C2: over any number of calls in any interleaving the OpenAI client is   *)
(* constructed at most once, and every call that got past the client      *)
(* acquisition holds that one handle, which is the singleton.              *)
C2_ClientConstructedOnce ==
    /\ constructed <= 1
    /\ (openaiClient = None) = (constructed = 0)
    /\ \A c \in Calls : call[c].client # None => call[c].client = openaiClient
    /\ \A c \in Calls : call[c].pc \in {"awaiting", "settled", "returned"} =>
                           call[c].client # None

(* two calls hold the handle at the same time, both past the acquisition *)
C2_Witness ==
    \E c1, c2 \in Calls :
        /\ c1 # c2
        /\ call[c1].pc = "awaiting" /\ call[c2].pc = "awaiting"
        /\ call[c1].client # None /\ call[c1].client = call[c2].client

(* C3: whether the singleton is traced is decided by the enableTracing     *)
(* value (true when unset) of the call that creates it, and no later step  *)
(* changes the singleton, whatever enableTracing a later call carries.     *)
C3_TracingFixedAtCreation ==
    [][/\ openaiClient # None => openaiClient' = openaiClient
       /\ (openaiClient = None /\ openaiClient' # None) =>
             \E c \in Calls :
                /\ Starts(c)
                /\ openaiClient'[1].traced =
                      Coalesce(call'[c].args.options["enableTracing"], TRUE)]_vars

(* a call with tracing off holds a traced handle while a call with tracing *)
(* on holds the same handle                                                *)
C3_Witness ==
    \E c1, c2 \in Calls :
        /\ call[c1].pc = "awaiting" /\ call[c2].pc = "awaiting"
        /\ call[c1].args.options["enableTracing"] = Some(FALSE)
        /\ call[c2].args.options["enableTracing"] = Some(TRUE)
        /\ call[c1].client # None /\ call[c1].client[1].traced
        /\ call[c2].client = call[c1].client

(* C4: a call routed to the OpenAI adapter that starts while               *)
(* OPENAI_API_KEY is unset and no singleton exists fails with APIKeyError, *)
(* status 401, provider openai, and issues no backend request.             *)
C4_MissingKeyFailsFast ==
    [][\A c \in Calls :
         (/\ Starts(c)
          /\ envKey = None
          /\ openaiClient = None
          /\ routedToOpenAI(call'[c].entry, call'[c].args)) =>
            /\ call'[c].pc = "failed"
            /\ call'[c].result[1].v.cls = "APIKeyError"
            /\ call'[c].result[1].v.statusCode = Some(401)
            /\ call'[c].result[1].v.provider = Some("openai")
            /\ call'[c].sent = <<>>
            /\ openaiClient' = None]_vars

(* a call has failed with APIKeyError while the key is unset *)
C4_Witness ==
    \E c \in Calls :
        /\ call[c].pc = "failed"
        /\ errorOf(c).cls = "APIKeyError"
        /\ call[c].sent = <<>>
        /\ envKey = None /\ openaiClient = None

(* C5: a call through the dispatcher whose provider resolves to anthropic  *)
(* or gemini, explicitly or by detection, fails with                       *)
(* UnsupportedProviderError, status 400, carrying the provider's string,   *)
(* without acquiring a client, building a request or issuing one, whether  *)
(* or not the API key is set.                                              *)
C5_UnsupportedProviderFirst ==
    [][\A c \in Calls :
         (/\ Starts(c)
          /\ call'[c].entry # "generateWithOpenAI"
          /\ resolvedProvider(call'[c].entry, call'[c].args) \in {"anthropic", "gemini"}) =>
            /\ call'[c].pc = "failed"
            /\ call'[c].result[1].v.cls = "UnsupportedProviderError"
            /\ call'[c].result[1].v.statusCode = Some(400)
            /\ \E i \in 1..Len(call'[c].result[1].v.message[1]) :
                  call'[c].result[1].v.message[1][i] =
                     resolvedProvider(call'[c].entry, call'[c].args)
            /\ call'[c].client = None
            /\ call'[c].sent = <<>>
            /\ openaiClient' = openaiClient
            /\ constructed' = constructed]_vars

(* a call has failed with UnsupportedProviderError for a provider detected *)
(* from the model name, with the key set and no client created             *)
C5_Witness ==
    \E c \in Calls :
        /\ call[c].pc = "failed"
        /\ errorOf(c).cls = "UnsupportedProviderError"
        /\ call[c].args.options["provider"] = None
        /\ call[c].config[1]["provider"] = Some("anthropic")
        /\ envKey = Some("sk-test")
        /\ openaiClient = None

(* C6: a call issues exactly one backend request when it reaches the       *)
(* invocation step and none otherwise, it settles only after that request  *)
(* has settled, and no call ever issues a second request.                  *)
C6_OneRequestNoRetry ==
    \A c \in Calls :
        /\ Len(call[c].sent) <= 1
        /\ call[c].pc = "idle" => call[c].sent = <<>>
        /\ call[c].pc \in {"awaiting", "settled"} => Len(call[c].sent) = 1
        /\ call[c].pc = "awaiting" => call[c].outcome = None /\ call[c].result = None
        /\ call[c].pc = "settled" => call[c].outcome # None /\ call[c].result = None
        /\ call[c].pc = "returned" => Len(call[c].sent) = 1 /\ call[c].outcome # None
        /\ call[c].pc = "failed" =>
              \/ Len(call[c].sent) = 1 /\ call[c].outcome # None
              \/ /\ call[c].sent = <<>>
                 /\ call[c].outcome = None
                 /\ errorOf(c).cls \in {"APIKeyError", "UnsupportedProviderError",
                                        "TypeError"}

(* a call has failed after its one request failed *)
C6_Witness ==
    \E c \in Calls :
        /\ call[c].pc = "failed"
        /\ Len(call[c].sent) = 1
        /\ call[c].outcome # None /\ call[c].outcome[1].t = "throw"

-----------------------------------------------------------------------------
(* Properties of the normalization of replies and errors.                  *)

(* the backend call of c threw *)
BackendThrew(c) == call[c].outcome # None /\ call[c].outcome[1].t = "throw"

(* the backend call of c replied *)
BackendReplied(c) == call[c].outcome # None /\ call[c].outcome[1].t = "reply"

(* the backend call of c threw an error: an object, of the taxonomy or not *)
ThrewError(c) == BackendThrew(c) /\ call[c].outcome[1].v.cls # "null"

(* the value the backend call of c threw, the reply it returned *)
thrownBy(c) == call[c].outcome[1].v

replyOf(c) == call[c].outcome[1].v

messageOr(under, fallback) ==
    IF under.message # None /\ ~emptyString(under.message[1])
    THEN under.message[1]
    ELSE fallback

(* e is the generic LLMError that wraps under, once *)
GenericWrap(e, under) ==
    /\ e.cls = "LLMError"
    /\ e.name = Some("LLMError")
    /\ e.message = Some(messageOr(under, <<"OpenAI generation failed">>))
    /\ e.statusCode = Some(IF under.status # None THEN under.status[1] ELSE 500)
    /\ e.provider = Some("openai")
    /\ e.originalError = Some(under)
    /\ under.originalError = None

(* the reply has an output list that is empty or not headed by a message *)
NoLeadingMessage(reply) ==
    /\ reply.output # None
    /\ Len(reply.output[1]) = 0 \/ reply.output[1][1].type # "message"

(* the taxonomy errors raised inside the adapter reach the caller as they  *)
(* are: one thrown by the backend call, and the unsupported-format error   *)
TaxonomyUnchanged(c) ==
    /\ (ThrewError(c) /\ instanceofLLMError(thrownBy(c))) =>
          call[c].pc = "failed" /\ errorOf(c) = thrownBy(c)
    /\ (BackendReplied(c) /\ NoLeadingMessage(replyOf(c))) =>
          /\ call[c].pc = "failed"
          /\ errorOf(c).cls = "LLMError"
          /\ errorOf(c).message = Some(<<"Unsupported OpenAI response format">>)
          /\ errorOf(c).originalError = None

configuredTimeout(entry, args) ==
    IF entryConfig(entry, args)["timeout"] = None
    THEN 90000
    ELSE IF entry # "generateWithOpenAI" /\ entryConfig(entry, args)["timeout"][1] = 0
    THEN 90000
    ELSE entryConfig(entry, args)["timeout"][1]

(* C8: a backend call that aborts makes the call fail with TimeoutError,   *)
(* status 408, provider openai, whose message holds the configured timeout *)
(* (90000 when none was configured); never with a generic LLMError.        *)
C8_AbortIsTimeoutError ==
    \A c \in Calls :
        (/\ Ended(c)
         /\ BackendThrew(c)
         /\ thrownBy(c).name = Some("AbortError")
         /\ ~instanceofLLMError(thrownBy(c))) =>
            /\ call[c].pc = "failed"
            /\ errorOf(c).cls = "TimeoutError"
            /\ errorOf(c).name = Some("TimeoutError")
            /\ errorOf(c).statusCode = Some(408)
            /\ errorOf(c).provider = Some("openai")
            /\ \E i \in 1..Len(errorOf(c).message[1]) :
                  errorOf(c).message[1][i] =
                     ToString(configuredTimeout(call[c].entry, call[c].args))
            /\ call[c].sent[1].options.timeout # None =>
                  call[c].sent[1].options.timeout[1] =
                     configuredTimeout(call[c].entry, call[c].args)

(* a direct call without a timeout has failed with a TimeoutError that     *)
(* names 90000                                                             *)
C8_Witness ==
    \E c \in Calls :
        /\ call[c].pc = "failed"
        /\ call[c].entry = "generateWithOpenAI"
        /\ call[c].args.options["timeout"] = None
        /\ BackendThrew(c)
        /\ thrownBy(c) = AbortError
        /\ errorOf(c).cls = "TimeoutError"
        /\ errorOf(c).message[1][4] = "90000"

(* the reply's output list is headed by a message item whose first content *)
(* part is output text                                                     *)
HeadedByText(reply) ==
    /\ reply.output # None
    /\ Len(reply.output[1]) >= 1
    /\ reply.output[1][1].type = "message"
    /\ reply.output[1][1].content # None
    /\ Len(reply.output[1][1].content[1]) >= 1
    /\ reply.output[1][1].content[1][1].type = "output_text"

headText(reply) == reply.output[1][1].content[1][1].text

(* C9: a reply whose output list is not headed by a message item whose     *)
(* first content part is output text makes the call fail with a generic    *)
(* LLMError, status 500, provider openai, and never yields a Response; in  *)
(* the accepted case the Response content is the text of that part.        *)
C9_StrictExtraction ==
    \A c \in Calls : (Ended(c) /\ BackendReplied(c)) =>
        IF HeadedByText(replyOf(c))
        THEN /\ call[c].pc = "returned"
             /\ call[c].response[1].content = headText(replyOf(c))
        ELSE /\ call[c].pc = "failed"
             /\ call[c].response = None
             /\ errorOf(c).cls = "LLMError"
             /\ errorOf(c).statusCode = Some(500)
             /\ errorOf(c).provider = Some("openai")

(* a call has failed on a reply whose message item comes second *)
C9_Witness ==
    \E c \in Calls :
        /\ call[c].pc = "failed"
        /\ BackendReplied(c)
        /\ replyOf(c).output # None
        /\ Len(replyOf(c).output[1]) = 2
        /\ replyOf(c).output[1][1].type = "function_call"
        /\ replyOf(c).output[1][2].type = "message"
        /\ errorOf(c).cls = "LLMError"

(* the caller of c asked for a schema *)
SchemaRequested(c) == entryConfig(call[c].entry, call[c].args)["schema"] # None

SentimentValue ==
    JObj(<< <<"sentiment", JStr("positive")>>, <<"confidence", JNum("0.9")>> >>)

(* C10: in a Response structuredOutput is present only if a schema was     *)
(* requested and the text parsed as JSON, and is then the parsed value;    *)
(* with a schema and a text that is not valid JSON the call still          *)
(* succeeds, with the text as content and structuredOutput unset.          *)
C10_StructuredOutput ==
    \A c \in Calls :
        /\ call[c].pc = "returned" =>
              /\ call[c].response[1].structuredOutput # None =>
                    /\ SchemaRequested(c)
                    /\ JSONparse(call[c].response[1].content) # None
                    /\ call[c].response[1].structuredOutput =
                          JSONparse(call[c].response[1].content)
              /\ (SchemaRequested(c) /\ call[c].response[1].content = TextSentiment) =>
                    call[c].response[1].structuredOutput = Some(SentimentValue)
        /\ (/\ Ended(c)
            /\ BackendReplied(c)
            /\ HeadedByText(replyOf(c))
            /\ SchemaRequested(c)
            /\ headText(replyOf(c)) \in {TextProse, TextTruncated, TextEmpty}) =>
              /\ call[c].pc = "returned"
              /\ call[c].response[1].content = headText(replyOf(c))
              /\ call[c].response[1].structuredOutput = None

(* a call that asked for a schema has returned a text that is not JSON *)
C10_Witness ==
    \E c \in Calls :
        /\ call[c].pc = "returned"
        /\ SchemaRequested(c)
        /\ call[c].response[1].content = TextTruncated
        /\ call[c].response[1].structuredOutput = None

-----------------------------------------------------------------------------
(* Properties of the helper functions.                                     *)

(* the helper call c has got a reply the adapter accepts *)
HelperGotText(c, entry) ==
    /\ Ended(c)
    /\ call[c].entry = entry
    /\ BackendReplied(c)
    /\ HeadedByText(replyOf(c))

(* the value the call c returned to its caller *)
returnedBy(c) == call[c].result[1].v.v

(* the generate helper returns exactly the content of the Response, and    *)
(* the result of generateStructured is never null or undefined             *)
HelperResults(c) ==
    /\ HelperGotText(c, "generate") =>
          /\ call[c].pc = "returned"
          /\ returnedBy(c) = call[c].response[1].content
          /\ returnedBy(c) = headText(replyOf(c))
    /\ HelperGotText(c, "generateStructured") =>
          /\ call[c].pc = "returned"
          /\ returnedBy(c).t \notin {"null", "undefined"}
          /\ JSONparse(headText(replyOf(c))) = None => returnedBy(c) = JObj(<<>>)

(* C11, as stated: generateStructured returns the parsed value when the    *)
(* reply text is valid JSON and an empty object, without raising, when it  *)
(* is not; its result is never null or undefined; the generate helper      *)
(* returns exactly the content of the Response.                            *)
C11_Original ==
    \A c \in Calls :
        /\ HelperResults(c)
        /\ (/\ HelperGotText(c, "generateStructured")
            /\ JSONparse(headText(replyOf(c))) # None) =>
              returnedBy(c) = JSONparse(headText(replyOf(c)))[1]

(* C11, amended: generateStructured returns the parsed value when the      *)
(* reply text is valid JSON other than null, and an empty object, without  *)
(* raising, when the text is not valid JSON, is empty or is the JSON text  *)
(* null; its result is never null or undefined; the generate helper        *)
(* returns exactly the content of the Response.                            *)
C11_HelperResults ==
    \A c \in Calls :
        /\ HelperResults(c)
        /\ (/\ HelperGotText(c, "generateStructured")
            /\ JSONparse(headText(replyOf(c))) # None) =>
              returnedBy(c) = IF JSONparse(headText(replyOf(c)))[1] = JNull
                              THEN JObj(<<>>)
                              ELSE JSONparse(headText(replyOf(c)))[1]

(* generateStructured has returned an empty object for a reply text that   *)
(* is not valid JSON                                                       *)
C11_Witness ==
    \E c \in Calls :
        /\ call[c].pc = "returned"
        /\ call[c].entry = "generateStructured"
        /\ call[c].response[1].content = TextProse
        /\ call[c].response[1].structuredOutput = None
        /\ returnedBy(c) = JObj(<<>>)

-----------------------------------------------------------------------------
(* Properties of the dispatcher's configuration.                           *)

(* the call c went through a dispatcher *)
ThroughDispatcher(c) ==
    call[c].pc # "idle" /\ call[c].entry # "generateWithOpenAI"

(* own is the resolution of the configuration input *)
ResolvedFrom(input, own) ==
    /\ own["provider"] = Some(IF input["provider"] # None
                               THEN input["provider"][1]
                               ELSE detectProvider(input["model"][1]))
    /\ own["timeout"] = Some(IF input["timeout"] # None /\ input["timeout"][1] # 0
                              THEN input["timeout"][1]
                              ELSE 90000)
    /\ own["enableTracing"] = Some(IF input["enableTracing"] # None
                                    THEN input["enableTracing"][1]
                                    ELSE TRUE)
    /\ \A f \in ConfigFields \ {"provider", "timeout", "enableTracing"} :
          own[f] = input[f]

(* C12: the configuration a dispatcher holds has provider, timeout and     *)
(* enableTracing populated: the explicit provider else the detected one,   *)
(* the explicit truthy timeout else 90000, the explicit enableTracing else *)
(* true, every other field as in the input; and it is the configuration    *)
(* the adapter works with: the request carries its model and its timeout.  *)
C12_ResolvedConfig ==
    \A c \in Calls : ThroughDispatcher(c) =>
        /\ call[c].config # None
        /\ ResolvedFrom(entryConfig(call[c].entry, call[c].args), call[c].config[1])
        /\ \A i \in 1..Len(call[c].sent) :
              /\ call[c].sent[i].params.model = call[c].config[1]["model"]
              /\ call[c].sent[i].options.timeout = call[c].config[1]["timeout"]

(* a dispatcher built without provider and tracing and with timeout 0      *)
(* holds openai, true and 90000, and its request has been sent             *)
C12_Witness ==
    \E c \in Calls :
        /\ call[c].entry = "LLM.generate"
        /\ call[c].args.options["provider"] = None
        /\ call[c].args.options["timeout"] = Some(0)
        /\ call[c].args.options["enableTracing"] = None
        /\ call[c].config[1]["provider"] = Some("openai")
        /\ call[c].config[1]["timeout"] = Some(90000)
        /\ call[c].config[1]["enableTracing"] = Some(TRUE)
        /\ Len(call[c].sent) = 1

-----------------------------------------------------------------------------
(* Properties of the dispatcher's configuration under aliasing.            *)

(* what getConfig of the dispatcher d returns now *)
configOf(d) == deref(heap.objs[llms[d].config])

(* C13: getConfig returns a copy of the resolved configuration: no write   *)
(* by a caller to an object getConfig returned or to the object passed to  *)
(* createLLM, to a top-level field or inside schema and traceMetadata,     *)
(* changes what later getConfig calls return or what later generate calls  *)
(* send: the dispatcher's configuration reads as it did at construction.   *)
C13_ConfigIsolated ==
    /\ \A d \in 1..Len(llms) : configOf(d) = llms[d].resolved
    /\ \A c \in Calls :
          (call[c].pc = "awaiting" /\ call[c].entry = "LLM.generate" /\ llms # <<>>) =>
             \E d \in 1..Len(llms) :
                 Some(call[c].sent[1].params) = buildParams(call[c].args.prompt,
                                                            llms[d].resolved)

(* C14: resolution is idempotent: a dispatcher built from the object that  *)
(* getConfig of another dispatcher returned holds a configuration          *)
(* identical to that dispatcher's: the same provider, timeout,             *)
(* enableTracing and the same other fields.                                *)
C14_ResolutionIdempotent ==
    \A d \in 1..Len(llms) : llms[d].source # 0 =>
        /\ heap.objs[llms[d].config] = heap.objs[llms[llms[d].source].config]
        /\ configOf(d) = configOf(llms[d].source)
        /\ llms[d].resolved = llms[d].input

(* a dispatcher has been built from the getConfig result of one that was   *)
(* built without a provider and with timeout 0                             *)
C14_Witness ==
    \E d \in 1..Len(llms) :
        /\ llms[d].source # 0
        /\ llms[llms[d].source].input["provider"] = None
        /\ llms[llms[d].source].input["timeout"] = Some(0)
        /\ configOf(d)["provider"] = Some("anthropic")
        /\ configOf(d)["timeout"] = Some(90000)

-----------------------------------------------------------------------------
(* Properties of the provider detection.                                   *)

OpenAIMarkers ==
    {<<"g", "p", "t">>, <<"o", "1">>, <<"o", "3">>,
     <<"d", "a", "v", "i", "n", "c", "i">>, <<"c", "u", "r", "i", "e">>,
     <<"b", "a", "b", "b", "a", "g", "e">>, <<"a", "d", "a">>}

AnthropicMarkers == {<<"c", "l", "a", "u", "d", "e">>}

GeminiMarkers == {<<"g", "e", "m", "i", "n", "i">>, <<"p", "a", "l", "m">>}

(* the lower-cased identifier holds a marker of the family *)
ofFamily(model, markers) == \E m \in markers : includes(toLowerCase(model), m)

(* the first family, in the order OpenAI, Anthropic, Gemini, of which the  *)
(* identifier holds a marker; openai when it holds none                    *)
firstFamily(model) ==
    CASE ofFamily(model, OpenAIMarkers) -> "openai"
      [] ~ofFamily(model, OpenAIMarkers) /\ ofFamily(model, AnthropicMarkers) ->
           "anthropic"
      [] /\ ~ofFamily(model, OpenAIMarkers)
         /\ ~ofFamily(model, AnthropicMarkers)
         /\ ofFamily(model, GeminiMarkers) -> "gemini"
      [] OTHER -> "openai"

(* the call c went through a dispatcher built without a provider *)
Detected(c) ==
    ThroughDispatcher(c) /\ entryConfig(call[c].entry, call[c].args)["provider"] = None

modelOf(c) == entryConfig(call[c].entry, call[c].args)["model"][1]

(* C15: for every model identifier detectProvider returns exactly one of   *)
(* openai, anthropic, gemini; the result depends only on the lower-cased   *)
(* identifier; the families are tried in the order OpenAI, Anthropic,      *)
(* Gemini/PaLM; an identifier without a marker yields openai (gpt-4 ->     *)
(* openai, Claude-3-5-Sonnet -> anthropic, gemini-pro -> gemini,           *)
(* llama-70b -> openai).                                                   *)
C15_DetectProvider ==
    \A c \in Calls : Detected(c) =>
        /\ call[c].config[1]["provider"] # None
        /\ call[c].config[1]["provider"][1] \in {"openai", "anthropic", "gemini"}
        /\ call[c].config[1]["provider"][1] = firstFamily(modelOf(c))
        /\ call[c].config[1]["provider"][1] = detectProvider(toLowerCase(modelOf(c)))
        /\ modelOf(c) = GPT4 => call[c].config[1]["provider"][1] = "openai"
        /\ modelOf(c) = ClaudeSonnet => call[c].config[1]["provider"][1] = "anthropic"
        /\ modelOf(c) = GeminiPro => call[c].config[1]["provider"][1] = "gemini"
        /\ modelOf(c) = Llama70b => call[c].config[1]["provider"][1] = "openai"

(* a dispatcher built for Claude-PaLM, an identifier with an upper-case    *)
(* Anthropic marker and a Gemini marker, has resolved to anthropic         *)
C15_Witness ==
    \E c \in Calls :
        /\ Detected(c)
        /\ ofFamily(modelOf(c), AnthropicMarkers)
        /\ ofFamily(modelOf(c), GeminiMarkers)
        /\ ~includes(modelOf(c), <<"c", "l", "a", "u", "d", "e">>)
        /\ call[c].config[1]["provider"] = Some("anthropic")

-----------------------------------------------------------------------------
(* Properties of the schema sent to the backend.                           *)

UnionKeys == {"anyOf", "allOf", "oneOf"}

RECURSIVE AllClosed(_, _)
RECURSIVE SameButAdded(_, _)

(* out[k] is closed with respect to in[k], for a key k both schemas have *)
closedUnder(out, in, k) ==
    (hasKey(in, k) /\ hasKey(out, k)) => AllClosed(getProp(out, k), getProp(in, k))

(* the values of out are closed with respect to those of in, one by one:   *)
(* the values of a properties object, the elements of an array             *)
closedEach(out, in) ==
    CASE in.t = "obj" /\ out.t = "obj" ->
           \A i \in 1..Len(in.v) :
               hasKey(out, in.v[i][1]) =>
                  AllClosed(getProp(out, in.v[i][1]), in.v[i][2])
      [] in.t = "arr" /\ out.t = "arr" ->
           \A i \in 1..Len(in.v) : i <= Len(out.v) => AllClosed(out.v[i], in.v[i])
      [] OTHER -> TRUE

(* every object node of the schema out reachable through properties        *)
(* values, items and the elements of anyOf, allOf, oneOf has               *)
(* additionalProperties: the value the input in set, false when it set     *)
(* none                                                                    *)
AllClosed(out, in) ==
    CASE in.t = "arr" -> closedEach(out, in)
      [] in.t = "obj" ->
           /\ out.t = "obj"
           /\ (hasKey(in, "type") /\ getProp(in, "type") = JStr("object")) =>
                 /\ hasKey(out, "additionalProperties")
                 /\ getProp(out, "additionalProperties") =
                       IF hasKey(in, "additionalProperties")
                       THEN getProp(in, "additionalProperties")
                       ELSE JBool(FALSE)
           /\ (hasKey(in, "properties") /\ hasKey(out, "properties")) =>
                 closedEach(getProp(out, "properties"), getProp(in, "properties"))
           /\ closedUnder(out, in, "items")
           /\ \A k \in UnionKeys :
                 (hasKey(in, k) /\ hasKey(out, k)) =>
                    closedEach(getProp(out, k), getProp(in, k))
      [] OTHER -> TRUE

(* out is in but for additionalProperties keys that in does not have *)
SameButAdded(out, in) ==
    CASE in.t = "obj" ->
           /\ out.t = "obj"
           /\ \A i \in 1..Len(in.v) :
                 /\ hasKey(out, in.v[i][1])
                 /\ SameButAdded(getProp(out, in.v[i][1]), in.v[i][2])
           /\ \A i \in 1..Len(out.v) :
                 \/ hasKey(in, out.v[i][1])
                 \/ out.v[i] = <<"additionalProperties", JBool(FALSE)>>
      [] in.t = "arr" ->
           /\ out.t = "arr"
           /\ Len(out.v) = Len(in.v)
           /\ \A i \in 1..Len(in.v) : SameButAdded(out.v[i], in.v[i])
      [] OTHER -> out = in

(* the schema the caller of c asked for, the schema of the request i of c *)
askedSchema(c) == entryConfig(call[c].entry, call[c].args)["schema"][1]

sentSchema(c, i) == call[c].sent[i].params.text[1].format.schema

(* C16: in the schema sent to the backend every node of type object        *)
(* reachable through properties values, items and the elements of anyOf,   *)
(* allOf, oneOf, at any depth, has additionalProperties false unless the   *)
(* input set that key on the node, whose value is then kept; apart from    *)
(* the added additionalProperties keys the output equals the input.        *)
C16_EveryObjectClosed ==
    \A c \in Calls : \A i \in 1..Len(call[c].sent) :
        call[c].sent[i].params.text # None =>
            /\ AllClosed(sentSchema(c, i), askedSchema(c))
            /\ SameButAdded(sentSchema(c, i), askedSchema(c))

(* the cells that hold the schema of some configuration object *)
schemaCells ==
    {a \in TreeAddrs : \E i \in 1..Len(heap.objs) : heap.objs[i]["schema"] = Some(Ref(a))}

(* C17: schema normalization never mutates the caller's schema: a generate *)
(* call leaves every schema that a configuration object refers to as it    *)
(* was, and the normalized schema it sends is a tree of its own, which no  *)
(* configuration object refers to.                                         *)
C17_SchemaNotMutated ==
    [][\A c \in Calls : Starts(c) =>
          /\ \A a \in referenced : heap'.trees[a] = heap.trees[a]
          /\ heap'.request # 0 =>
                /\ heap'.request \notin referenced
                /\ \E a \in schemaCells :
                      /\ heap'.trees[heap'.request] =
                            normalizeSchemaForStrictMode(heap.trees[a][1])
                      /\ Some(call'[c].sent[1].params.text[1].format.schema) =
                            heap'.trees[heap'.request]]_vars

(* a request has been built with the closed schema while the caller's      *)
(* schema is the one the caller wrote                                      *)
C17_Witness ==
    /\ heap.request # 0
    /\ hasKey(heap.trees[heap.request][1], "additionalProperties")
    /\ \E a \in schemaCells : heap.trees[a] = Some(SentimentSchema)
    /\ \E c \in Calls : call[c].pc = "awaiting" /\ call[c].sent[1].params.text # None

-----------------------------------------------------------------------------
(* Properties of the request.                                              *)

(* the turns of the caller: one user turn for a string prompt, the         *)
(* caller's messages otherwise                                             *)
callerTurns(prompt) ==
    IF prompt.t = "string"
    THEN <<[role |-> "user", content |-> prompt.v]>>
    ELSE prompt.v

systemTurn(text) == <<[role |-> "system", content |-> text]>>

(* temperature, sampling limits, reasoning hint and structured-output      *)
(* directive of the request params built from the configuration asked      *)
RequestOptions(params, asked) ==
    /\ params.temperature = Some(IF asked["temperature"] # None
                                 THEN asked["temperature"][1]
                                 ELSE "0.7")
    /\ params.top_p = asked["topP"]
    /\ params.max_output_tokens = asked["maxTokens"]
    /\ (params.reasoning # None) <=> (asked["reasoning"] # None)
    /\ asked["reasoning"] # None => params.reasoning[1].effort = asked["reasoning"][1]
    /\ (params.text # None) <=> (asked["schema"] # None)
    /\ params.text # None =>
          /\ params.text[1].format.type = "json_schema"
          /\ params.text[1].format.strict = TRUE

askedOf(c) == entryConfig(call[c].entry, call[c].args)

(* C18, as stated: the turn list sent is one system turn holding           *)
(* systemPrompt if systemPrompt is set, followed by a single user turn     *)
(* holding the prompt or by the caller's messages in order and unchanged,  *)
(* and nothing else; temperature is sent as given, or 0.7 when unset; a    *)
(* reasoning hint and a strict structured-output directive are attached    *)
(* exactly when reasoning, respectively schema, is set.                    *)
C18_Original ==
    \A c \in Calls : \A i \in 1..Len(call[c].sent) :
        /\ call[c].sent[i].params.input =
              (IF askedOf(c)["systemPrompt"] # None
               THEN systemTurn(askedOf(c)["systemPrompt"][1])
               ELSE <<>>) \o callerTurns(call[c].args.prompt)
        /\ RequestOptions(call[c].sent[i].params, askedOf(c))

(* C18, amended: the system turn is sent if systemPrompt is set and is not *)
(* the empty string; the rest as stated.                                   *)
C18_RequestShape ==
    \A c \in Calls : \A i \in 1..Len(call[c].sent) :
        /\ call[c].sent[i].params.input =
              (IF askedOf(c)["systemPrompt"] # None /\ askedOf(c)["systemPrompt"][1] # ""
               THEN systemTurn(askedOf(c)["systemPrompt"][1])
               ELSE <<>>) \o callerTurns(call[c].args.prompt)
        /\ RequestOptions(call[c].sent[i].params, askedOf(c))

(* a request has been sent for a conversation of three turns with a system *)
(* prompt, a reasoning level and no temperature                            *)
C18_Witness ==
    \E c \in Calls :
        /\ Len(call[c].sent) = 1
        /\ call[c].args.prompt = Conversation
        /\ askedOf(c)["systemPrompt"] = Some("Be terse.")
        /\ askedOf(c)["temperature"] = None
        /\ Len(call[c].sent[1].params.input) = 4
        /\ call[c].sent[1].params.input[1].role = "system"
        /\ call[c].sent[1].params.temperature = Some("0.7")
        /\ call[c].sent[1].params.reasoning = Some([effort |-> "low"])

-----------------------------------------------------------------------------
(* Properties of the Response's usage and of the errors' fields.           *)

(* C19: in every Response that carries usage, totalTokens equals           *)
(* inputTokens + outputTokens; usage is present exactly when the backend   *)
(* reported usage.                                                         *)
C19_UsageTotals ==
    \A c \in Calls : call[c].pc = "returned" =>
        /\ (call[c].response[1].usage # None) <=> (replyOf(c).usage # None)
        /\ call[c].response[1].usage # None =>
              call[c].response[1].usage[1].totalTokens =
                 call[c].response[1].usage[1].inputTokens
                 + call[c].response[1].usage[1].outputTokens

(* the provider the call c is resolved to *)
providerOf(c) ==
    IF call[c].entry = "generateWithOpenAI"
    THEN "openai"
    ELSE resolvedProvider(call[c].entry, call[c].args)

(* C20: every error of the taxonomy with which a generate call fails       *)
(* carries a kind, a status code and, in its provider field, the provider  *)
(* the call was resolved to.                                               *)
C20_ErrorsCarryProvider ==
    \A c \in Calls : (call[c].pc = "failed" /\ errorOf(c).cls \in Taxonomy) =>
        /\ errorOf(c).name = Some(errorOf(c).cls)
        /\ errorOf(c).statusCode # None
        /\ errorOf(c).provider = Some(providerOf(c))

-----------------------------------------------------------------------------
(* Properties of the helpers' arguments.                                   *)

(* C21: for every options value, also one that carries a schema or a model *)
(* key, the request issued by generateStructured(model, prompt, schema,    *)
(* options) uses the model argument as model and carries the strict        *)
(* structured-output directive built from the schema argument.             *)
C21_ArgumentsWin ==
    \A c \in Calls : \A i \in 1..Len(call[c].sent) :
        call[c].entry = "generateStructured" =>
            /\ call[c].sent[i].params.model = call[c].args.model
            /\ call[c].sent[i].params.text # None
            /\ Some(call[c].sent[i].params.text[1].format) =
                  convertSchemaToResponseFormat(call[c].args.schema[1])

(* the call c has failed with the TimeoutError made of an aborted backend  *)
(* call                                                                    *)
TimedOut(c) ==
    /\ call[c].pc = "failed"
    /\ BackendThrew(c)
    /\ thrownBy(c).name = Some("AbortError")
    /\ ~instanceofLLMError(thrownBy(c))
    /\ errorOf(c).cls = "TimeoutError"

(* C22: every backend call carries a concrete timeout, and the timeout a   *)
(* TimeoutError echoes is the timeout that was passed to the backend call  *)
(* that aborted, for calls through the dispatcher and for direct calls of  *)
(* generateWithOpenAI, with or without a timeout in the configuration.     *)
C22_TimeoutEchoed ==
    \A c \in Calls :
        /\ \A i \in 1..Len(call[c].sent) : call[c].sent[i].options.timeout # None
        /\ TimedOut(c) =>
              /\ call[c].sent[1].options.timeout # None
              /\ errorOf(c).message[1][4] = ToString(call[c].sent[1].options.timeout[1])

-----------------------------------------------------------------------------
(* Properties of the API key.                                              *)

keyPresent == envKey # None /\ envKey[1] # ""

(* C23: the API key is read only when the singleton is created.  A call    *)
(* that fails with APIKeyError leaves the singleton unset; a call to the   *)
(* adapter made while the singleton is unset and the key is present        *)
(* creates the client, with that call's tracing flag, and proceeds to its  *)
(* request (to the conversion of its schema, when that one throws); once   *)
(* the singleton exists no call fails with APIKeyError and no call         *)
(* replaces it, whatever the environment holds.                            *)
C23_KeyReadAtCreation ==
    [][\A c \in Calls : Starts(c) =>
          /\ openaiClient # None =>
                /\ openaiClient' = openaiClient
                /\ ~(call'[c].pc = "failed" /\ call'[c].result[1].v.cls = "APIKeyError")
          /\ (call'[c].pc = "failed" /\ call'[c].result[1].v.cls = "APIKeyError") =>
                /\ ~keyPresent
                /\ openaiClient = None
                /\ openaiClient' = None
          /\ (/\ openaiClient = None
              /\ keyPresent
              /\ \/ call'[c].entry = "generateWithOpenAI"
                 \/ call'[c].config[1]["provider"] = Some("openai")) =>
                /\ openaiClient' =
                      Some(Client(constructed + 1, envKey[1],
                                  Coalesce(call'[c].config[1]["enableTracing"], TRUE)))
                /\ call'[c].client = openaiClient'
                /\ IF wantsSchema(call'[c].config[1])
                      /\ hasCycle(call'[c].config[1]["schema"][1])
                   THEN call'[c].pc = "failed" /\ call'[c].result[1].v.cls = "TypeError"
                   ELSE call'[c].pc = "awaiting" /\ Len(call'[c].sent) = 1]_vars

(* a call has failed with APIKeyError and a later call, made with tracing  *)
(* off once the key was present, has created the client and waits for the  *)
(* backend; the key has been removed again since                           *)
C23_Witness ==
    \E c, d \in Calls :
        /\ call[c].pc = "failed"
        /\ errorOf(c).cls = "APIKeyError"
        /\ call[d].pc = "awaiting"
        /\ call[d].config[1]["enableTracing"] = Some(FALSE)
        /\ constructed = 1
        /\ openaiClient # None
        /\ openaiClient[1].traced = FALSE
        /\ call[d].client = openaiClient
        /\ envKey = None

=============================================================================
